---------------------------- MODULE Spec2Model ----------------------------
(***************************************************************************)
(* A model of hdmolecule.py: the class HDMolecule (a homonuclear diatomic  *)
(* molecule evaluated with the ASE EMT calculator) and the two drivers     *)
(* analyze_N2 and analyze_exp_N2.                                          *)
(*                                                                         *)
(* Units.  A distance is an integer number of tenths of an angstrom (1.1   *)
(* is 11).  An energy is an integer number of eighths of an eV: such       *)
(* values are exact binary floating-point numbers, so 2*e_atom -           *)
(* e_molecule is computed without rounding and "%5.2f" rounds their exact  *)
(* value (ties to even).                                                   *)
(*                                                                         *)
(* The program is single-threaded and synchronous: one action is one call  *)
(* made by the client, run to its return or to the exception that leaves   *)
(* it.  A call is computed by operators that thread the "world" (the heap  *)
(* of instances, the calculator counter, stdout, the evaluations made)     *)
(* through the statements of the method, in the order of the source.       *)
(***************************************************************************)
EXTENDS Integers, Sequences, FiniteSets, TLC

VARIABLES
    objs,    \* the HDMolecule instances the client holds, in creation order
    ncalc,   \* how many EMT() calculator objects have been constructed
    emt,     \* the external evaluator, as far as it has been observed
    out,     \* the lines the last call printed to stdout
    evals,   \* the external evaluations the last call performed, in order
    res,     \* how the last call ended: a returned value or an exception
    N2,      \* the local N2 of the last analyze_N2 call, as it was at exit
    last,    \* the last call: its name and its arguments
    made,    \* for each instance of objs, the arguments it was constructed with
    ncalls   \* how many calls the client has made

vars == <<objs, ncalc, emt, out, evals, res, N2, last, made, ncalls>>

---------------------------------------------------------------------------
(* Bounds of the model. *)

MaxCalls == 3
MaxObjs == 2

(* Inputs.  "N" and "H" are chemical elements, "Qq" is not one. *)
chemical_symbols == {"N", "H"}
Symbols == chemical_symbols \cup {"Qq"}
Distances == {-5, 0, 11}
Energies == {-85, 3}

---------------------------------------------------------------------------
(* Results of calls. *)

Ret(v) == [kind |-> "return", val |-> v, exc |-> ""]
Raise(e) == [kind |-> "raise", val |-> 0, exc |-> e]
None == 0
Failed(w) == w.res.kind = "raise"

(* What one external evaluation can give: an energy, or a failure of the   *)
(* evaluator.                                                              *)
Outcomes == {Ret(e) : e \in Energies} \cup {Raise("EvaluatorError")}

---------------------------------------------------------------------------
(* The structure builder, ase.Atoms. *)

NoCalc == [id |-> 0, results |-> <<>>]

(* A formula is a sequence of tokens: "2" + element_symbol is <<"2", s>>.  *)
(* A leading count repeats the symbol that follows it.                     *)
string2symbols(formula) ==
    IF Len(formula) = 2 /\ formula[1] = "2"
    THEN <<formula[2], formula[2]>>
    ELSE formula

(* Atoms(symbols, positions): the builder rejects a symbol that is not a   *)
(* chemical element and a position list of the wrong length; it accepts    *)
(* any coordinates.  Without positions every atom is at the origin.  A new *)
(* structure has no calculator.                                            *)
Atoms(formula, positions) ==
    LET syms == string2symbols(formula)
        pos == IF positions = <<>>
               THEN [k \in 1..Len(syms) |-> <<0, 0, 0>>]
               ELSE positions
    IN  IF (\E k \in 1..Len(syms) : syms[k] \notin chemical_symbols)
           \/ Len(pos) # Len(syms)
        THEN [exc |-> "InvalidInput", atoms |-> <<>>]
        ELSE [exc |-> "",
              atoms |-> <<[symbols |-> syms, positions |-> pos, calc |-> NoCalc]>>]

(* What the evaluator sees of a structure: its elements and its geometry.  *)
Key(s) == [symbols |-> s.symbols, positions |-> s.positions]

---------------------------------------------------------------------------
(* HDMolecule. *)

(* Variant: the constructor validates the distance itself. *)
HDMolecule_init_validating(w, element_symbol, distance) ==
    LET a == Atoms(<<element_symbol>>, <<>>)
        m == Atoms(<<"2", element_symbol>>, <<<<0, 0, 0>>, <<0, 0, distance>>>>)
    IN  IF distance <= 0 \/ a.exc # "" \/ m.exc # ""
        THEN [w EXCEPT !.res = Raise("InvalidInput")]
        ELSE [w EXCEPT !.objs = Append(@, [atom |-> a.atoms[1],
                                            molecule |-> m.atoms[1]]),
                       !.res = Ret(None)]

(* Variant: the second atom is placed along the x axis. *)
HDMolecule_init_wrong_axis(w, element_symbol, distance) ==
    LET a == Atoms(<<element_symbol>>, <<>>)
        m == Atoms(<<"2", element_symbol>>, <<<<0, 0, 0>>, <<distance, 0, 0>>>>)
    IN  IF a.exc # "" THEN [w EXCEPT !.res = Raise(a.exc)]
        ELSE IF m.exc # "" THEN [w EXCEPT !.res = Raise(m.exc)]
        ELSE [w EXCEPT !.objs = Append(@, [atom |-> a.atoms[1],
                                            molecule |-> m.atoms[1]]),
                       !.res = Ret(None)]

(* __init__: the two structures are built, the isolated atom first; an     *)
(* exception of the builder leaves the constructor and no instance exists. *)
HDMolecule_init(w, element_symbol, distance) ==
    LET a == Atoms(<<element_symbol>>, <<>>)
        m == Atoms(<<"2", element_symbol>>, <<<<0, 0, 0>>, <<0, 0, distance>>>>)
    IN  IF a.exc # "" THEN [w EXCEPT !.res = Raise(a.exc)]
        ELSE IF m.exc # "" THEN [w EXCEPT !.res = Raise(m.exc)]
        ELSE [w EXCEPT !.objs = Append(@, [atom |-> a.atoms[1],
                                            molecule |-> m.atoms[1]]),
                       !.res = Ret(None)]

(* EMT(): a new calculator object, with nothing calculated yet. *)
EMT(w) == [id |-> w.ncalc + 1, results |-> <<>>]

(* self.<which>.calc = EMT() *)
SetCalc(w, i, which) ==
    [w EXCEPT !.objs[i][which].calc = EMT(w), !.ncalc = @ + 1]

(* The external evaluator is a deterministic function of the structure,   *)
(* observed one structure at a time: a structure evaluated before gives    *)
(* the outcome it gave then (w.emt); one evaluated for the first time      *)
(* gives the outcome this call draws for it (w.oa for an isolated atom,    *)
(* w.om for a molecule).                                                   *)
calculate(w, k) ==
    IF k \in DOMAIN w.emt THEN w.emt[k]
    ELSE IF Len(k.symbols) = 1 THEN w.oa ELSE w.om

(* Atoms.get_potential_energy(): without a calculator it raises; a         *)
(* calculator that has calculated this structure returns its stored        *)
(* result; otherwise the calculator evaluates the structure (one external  *)
(* evaluation) and stores the energy.                                      *)
get_potential_energy(w, i, which) ==
    LET s == w.objs[i][which]
        o == calculate(w, Key(s))
    IN  IF s.calc.id = 0 THEN [w EXCEPT !.res = Raise("NoCalculator")]
        ELSE IF s.calc.results # <<>> THEN [w EXCEPT !.res = Ret(s.calc.results[1])]
        ELSE [w EXCEPT !.evals = Append(@, Key(s)),
                       !.emt = IF Key(s) \in DOMAIN w.emt THEN w.emt
                               ELSE [k \in DOMAIN w.emt \cup {Key(s)} |->
                                        IF k = Key(s) THEN o ELSE w.emt[k]],
                       !.objs[i][which].calc.results =
                            IF o.kind = "return" THEN <<o.val>> ELSE <<>>,
                       !.res = o]

(* Variant: the body of molecule_energy pasted into atom_energy. *)
atom_energy_of_molecule(w, i) ==
    get_potential_energy(SetCalc(w, i, "molecule"), i, "molecule")

(* Variant: the calculator goes to the atom, the energy is read from the   *)
(* molecule.                                                               *)
atom_energy_stale(w, i) ==
    get_potential_energy(SetCalc(w, i, "atom"), i, "molecule")

(* Variant: a calculator already attached is kept, with what it stored.    *)
atom_energy_cached(w, i) ==
    IF w.objs[i].atom.calc.id # 0
    THEN get_potential_energy(w, i, "atom")
    ELSE get_potential_energy(SetCalc(w, i, "atom"), i, "atom")

atom_energy(w, i) == get_potential_energy(SetCalc(w, i, "atom"), i, "atom")

(* Variant: the calculator goes to the atom, not to the molecule. *)
molecule_energy_binds_atom(w, i) ==
    get_potential_energy(SetCalc(w, i, "atom"), i, "molecule")

molecule_energy(w, i) ==
    get_potential_energy(SetCalc(w, i, "molecule"), i, "molecule")

(* Variant: the factor 2 is forgotten. *)
atomization_energy_no_factor(w, i) ==
    LET w1 == atom_energy(w, i)
        w2 == molecule_energy(w1, i)
    IN  IF Failed(w1) THEN w1
        ELSE IF Failed(w2) THEN w2
        ELSE [w2 EXCEPT !.res = Ret(w1.res.val - w2.res.val)]

(* Variant: a failed evaluation is caught and counted as zero energy. *)
atomization_energy_swallow(w, i) ==
    LET w1 == atom_energy(w, i)
        e1 == IF Failed(w1) THEN 0 ELSE w1.res.val
        w2 == molecule_energy(w1, i)
        e2 == IF Failed(w2) THEN 0 ELSE w2.res.val
    IN  [w2 EXCEPT !.res = Ret((2 * e1) - e2)]

atomization_energy(w, i) ==
    LET w1 == atom_energy(w, i)
        w2 == molecule_energy(w1, i)
    IN  IF Failed(w1) THEN w1
        ELSE IF Failed(w2) THEN w2
        ELSE [w2 EXCEPT !.res = Ret((2 * w1.res.val) - w2.res.val)]

---------------------------------------------------------------------------
(* The drivers. *)

RECURSIVE NumDigits(_)
NumDigits(n) == IF n < 10 THEN 1 ELSE 1 + NumDigits(n \div 10)

Spaces(n) == IF n <= 0 THEN "" ELSE IF n = 1 THEN " " ELSE IF n = 2 THEN "  "
             ELSE IF n = 3 THEN "   " ELSE "    "

(* Variant: ties are rounded away from zero. *)
Format52_half_up(k) ==
    LET a == IF k < 0 THEN -k ELSE k
        cents == ((25 * a) + 1) \div 2
        whole == cents \div 100
        frac == cents % 100
        width == (IF k < 0 THEN 1 ELSE 0) + NumDigits(whole) + 3
    IN  Spaces(5 - width) \o (IF k < 0 THEN "-" ELSE "") \o ToString(whole)
            \o "." \o (IF frac < 10 THEN "0" ELSE "") \o ToString(frac)

(* "%5.2f" % v for v = k/8: the exact value rounded to two decimals, ties  *)
(* to even, the sign of v kept, padded on the left to five characters.     *)
Format52(k) ==
    LET a == IF k < 0 THEN -k ELSE k
        halfcents == 25 * a
        f == halfcents \div 2
        cents == IF halfcents % 2 = 0 THEN f
                 ELSE IF f % 2 = 0 THEN f ELSE f + 1
        whole == cents \div 100
        frac == cents % 100
        width == (IF k < 0 THEN 1 ELSE 0) + NumDigits(whole) + 3
    IN  Spaces(5 - width) \o (IF k < 0 THEN "-" ELSE "") \o ToString(whole)
            \o "." \o (IF frac < 10 THEN "0" ELSE "") \o ToString(frac)

print(w, line) == [w EXCEPT !.out = Append(@, line)]

(* analyze_N2(distance): N2 is a new instance, on top of the heap; each    *)
(* print runs after the call in its argument returned, and an exception    *)
(* leaves the function at the statement that raised it.                    *)
analyze_N2(w, distance) ==
    LET w0 == HDMolecule_init(w, "N", distance)
        i == Len(w0.objs)
        w1 == atom_energy(w0, i)
        p1 == print(w1, "Nitrogen atom energy: " \o Format52(w1.res.val) \o " eV")
        w2 == molecule_energy(p1, i)
        p2 == print(w2, "Nitrogen molecule energy: " \o Format52(w2.res.val) \o " eV")
        w3 == atomization_energy(p2, i)
        p3 == print(w3, "Atomization energy: " \o Format52(w3.res.val) \o " eV")
    IN  IF Failed(w0) THEN w0
        ELSE IF Failed(w1) THEN w1
        ELSE IF Failed(w2) THEN w2
        ELSE IF Failed(w3) THEN w3
        ELSE [p3 EXCEPT !.res = Ret(None)]

exp_bond_length == 11

(* Variant: the driver is called with another bond length. *)
analyze_exp_N2_other_length(w) == analyze_N2(w, 10)

analyze_exp_N2(w) == analyze_N2(w, exp_bond_length)

---------------------------------------------------------------------------
(* The state machine. *)

NoOracle == [k \in {} |-> Ret(0)]

(* The world a call starts in: the program's state, nothing printed or     *)
(* evaluated yet, and the outcomes drawn for structures not seen before.   *)
World(oa, om) ==
    [objs |-> objs, ncalc |-> ncalc, emt |-> emt, oa |-> oa, om |-> om,
     out |-> <<>>, evals |-> <<>>, res |-> Ret(None)]

Call(op, self, sym, d) == [op |-> op, self |-> self, sym |-> sym, d |-> d]

Drivers == {"analyze_N2", "analyze_exp_N2"}

(* The state a call leaves behind.  The local of a driver (an instance     *)
(* above the client's) goes out of scope; it is kept in N2 as it was.      *)
Commit(w, l) ==
    /\ objs' = IF l.op \in Drivers THEN SubSeq(w.objs, 1, Len(objs)) ELSE w.objs
    /\ N2' = IF l.op \in Drivers /\ Len(w.objs) > Len(objs)
             THEN <<w.objs[Len(w.objs)]>> ELSE <<>>
    /\ made' = IF l.op = "HDMolecule" /\ Len(w.objs) > Len(objs)
               THEN Append(made, [sym |-> l.sym, d |-> l.d]) ELSE made
    /\ ncalc' = w.ncalc
    /\ emt' = w.emt
    /\ out' = w.out
    /\ evals' = w.evals
    /\ res' = w.res
    /\ last' = l
    /\ ncalls' = ncalls + 1

Init ==
    /\ objs = <<>>
    /\ ncalc = 0
    /\ emt = NoOracle
    /\ out = <<>>
    /\ evals = <<>>
    /\ res = Ret(None)
    /\ N2 = <<>>
    /\ last = Call("", 0, "", 0)
    /\ made = <<>>
    /\ ncalls = 0

(* The client constructs HDMolecule(sym, d). *)
New(sym, d) ==
    /\ ncalls < MaxCalls
    /\ Len(objs) < MaxObjs
    /\ Commit(HDMolecule_init(World(Ret(0), Ret(0)), sym, d),
              Call("HDMolecule", 0, sym, d))

(* The client calls an accessor of the instance objs[i]. *)
AtomEnergy(i, oa, om) ==
    /\ ncalls < MaxCalls
    /\ Commit(atom_energy(World(oa, om), i), Call("atom_energy", i, "", 0))

MoleculeEnergy(i, oa, om) ==
    /\ ncalls < MaxCalls
    /\ Commit(molecule_energy(World(oa, om), i), Call("molecule_energy", i, "", 0))

AtomizationEnergy(i, oa, om) ==
    /\ ncalls < MaxCalls
    /\ Commit(atomization_energy(World(oa, om), i),
              Call("atomization_energy", i, "", 0))

(* The client calls a driver. *)
AnalyzeN2(d, oa, om) ==
    /\ ncalls < MaxCalls
    /\ Commit(analyze_N2(World(oa, om), d), Call("analyze_N2", 0, "", d))

AnalyzeExpN2(oa, om) ==
    /\ ncalls < MaxCalls
    /\ Commit(analyze_exp_N2(World(oa, om)), Call("analyze_exp_N2", 0, "", 0))

Next ==
    \/ \E sym \in Symbols, d \in Distances : New(sym, d)
    \/ \E i \in 1..Len(objs), oa \in Outcomes, om \in Outcomes :
            AtomEnergy(i, oa, om)
    \/ \E i \in 1..Len(objs), oa \in Outcomes, om \in Outcomes :
            MoleculeEnergy(i, oa, om)
    \/ \E i \in 1..Len(objs), oa \in Outcomes, om \in Outcomes :
            AtomizationEnergy(i, oa, om)
    \/ \E d \in Distances, oa \in Outcomes, om \in Outcomes : AnalyzeN2(d, oa, om)
    \/ \E oa \in Outcomes, om \in Outcomes : AnalyzeExpN2(oa, om)

Spec == Init /\ [][Next]_vars

---------------------------------------------------------------------------
(* Properties. *)

Accessors == {"atom_energy", "molecule_energy", "atomization_energy"}

(* What the accessor op returns, or raises, when called on instance i in   *)
(* the world w.                                                            *)
Query(op, w, i) ==
    (CASE op = "atom_energy" -> atom_energy(w, i)
       [] op = "molecule_energy" -> molecule_energy(w, i)
       [] OTHER -> atomization_energy(w, i)).res

(* The outcome the evaluator has shown for the structure k. *)
ObservedIn(e, k) == IF k \in DOMAIN e THEN e[k] ELSE Raise("unobserved")
Observed(k) == ObservedIn(emt, k)

(* C1: a call of atomization_energy() that returns, returns exactly        *)
(* 2 * atom_energy() - molecule_energy() of the same instance: twice what  *)
(* the evaluator gives for the isolated atom minus what it gives for the   *)
(* molecule, and twice what atom_energy() returns on that instance minus   *)
(* what molecule_energy() returns on it.                                   *)
C1_AtomizationIdentity ==
    last.op = "atomization_energy" /\ res.kind = "return" =>
        /\ res.val = (2 * Observed(Key(objs[last.self].atom)).val)
                        - Observed(Key(objs[last.self].molecule)).val
        /\ \A oa \in Outcomes, om \in Outcomes :
              LET a == atom_energy(World(oa, om), last.self).res
                  m == molecule_energy(World(oa, om), last.self).res
              IN  /\ a.kind = "return"
                  /\ m.kind = "return"
                  /\ res.val = (2 * a.val) - m.val

C1_Witness ==
    /\ last.op = "atomization_energy"
    /\ res.kind = "return"
    /\ made[last.self].d > 0
    /\ Observed(Key(objs[last.self].atom)) # Observed(Key(objs[last.self].molecule))

(* C2, as claimed: the constructor fails with InvalidInput, and produces   *)
(* no instance, whenever the symbol is not a chemical element or the       *)
(* distance is not positive.                                               *)
C2_FailsOnInvalidInput ==
    [][last'.op = "HDMolecule"
            /\ (last'.sym \notin chemical_symbols \/ last'.d <= 0)
        => res' = Raise("InvalidInput") /\ objs' = objs]_vars

(* C2, amended: the constructor fails with the builder's InvalidInput, and *)
(* produces no instance, when the symbol is not a chemical element; the    *)
(* distance is not validated: for a chemical element and any distance,     *)
(* positive or not, the constructor returns and there is one more          *)
(* instance, whose molecule has its atoms at (0,0,0) and (0,0,distance).   *)
C2_FailsOnUnknownSymbolOnly ==
    [][last'.op = "HDMolecule" =>
        IF last'.sym \notin chemical_symbols
        THEN res' = Raise("InvalidInput") /\ objs' = objs
        ELSE /\ res' = Ret(None)
             /\ Len(objs') = Len(objs) + 1
             /\ SubSeq(objs', 1, Len(objs)) = objs
             /\ objs'[Len(objs')].molecule.positions
                    = <<<<0, 0, 0>>, <<0, 0, last'.d>>>>]_vars

C2_Witness ==
    /\ last.op = "HDMolecule"
    /\ last.sym \in chemical_symbols
    /\ last.d <= 0
    /\ res.kind = "return"
    /\ objs[Len(objs)].molecule.positions[2] = <<0, 0, last.d>>

(* C3: atom_energy() does not depend on the distance: what a call of       *)
(* atom_energy() gave on one instance is what atom_energy() gives on every *)
(* instance of the same element, whatever its distance.                    *)
C3_AtomEnergyIgnoresDistance ==
    last.op = "atom_energy" =>
        \A j \in 1..Len(objs) :
            made[j].sym = made[last.self].sym =>
                \A oa \in Outcomes, om \in Outcomes :
                    atom_energy(World(oa, om), j).res = res

C3_Witness ==
    /\ last.op = "atom_energy"
    /\ res.kind = "return"
    /\ \E j \in 1..Len(objs) :
            /\ made[j].sym = made[last.self].sym
            /\ made[j].d # made[last.self].d

(* C4: a failed external evaluation ends the call it happens in: it is the *)
(* last evaluation of the call (nothing is retried, nothing is evaluated   *)
(* after it) and the call, accessor or driver, ends with exactly that      *)
(* failure.                                                                *)
C4_FailurePropagates ==
    last.op \in Accessors \cup Drivers =>
        \A k \in 1..Len(evals) :
            Observed(evals[k]).kind = "raise" =>
                /\ k = Len(evals)
                /\ res = Observed(evals[k])
                /\ res = Raise("EvaluatorError")

C4_Witness ==
    /\ last.op = "atomization_energy"
    /\ Len(evals) = 2
    /\ Observed(evals[1]).kind = "return"
    /\ res = Raise("EvaluatorError")

(* C4, for a driver: a driver whose molecule evaluation fails ends with    *)
(* that failure, after the one line it printed.                            *)
C4_WitnessDriver ==
    /\ last.op = "analyze_exp_N2"
    /\ Len(evals) = 2
    /\ Len(out) = 1
    /\ res = Raise("EvaluatorError")

(* C5: an accessor called again gives what it gave: in the state a call of *)
(* an accessor leaves, the same accessor on the same instance gives the    *)
(* result of that call; and the call changes the result of no accessor of  *)
(* that instance (what each would have given before the call, it gives     *)
(* after it), whatever the evaluator gives for structures not yet seen.    *)
C5_RepeatedQuerySameResult ==
    [][last'.op \in Accessors =>
        \A oa \in Outcomes, om \in Outcomes :
            LET before == [World(oa, om) EXCEPT !.emt = emt']
                after == World(oa, om)'
            IN  /\ Query(last'.op, after, last'.self) = res'
                /\ \A op \in Accessors :
                        Query(op, before, last'.self) = Query(op, after, last'.self)]_vars

C5_Witness ==
    /\ last.op = "atom_energy"
    /\ res.kind = "return"
    /\ Len(objs) = 1
    /\ ncalc = 2
    /\ objs[last.self].atom.calc.id = 2
    /\ objs[last.self].molecule.calc.id = 0

(* C6: every instance keeps the geometry of its construction: its molecule *)
(* is two atoms of its element at (0,0,0) and (0,0,d), its isolated atom   *)
(* is one atom of that element; so is the local instance of a driver.      *)
Homonuclear(o, sym, d) ==
    /\ o.molecule.symbols = <<sym, sym>>
    /\ o.molecule.positions = <<<<0, 0, 0>>, <<0, 0, d>>>>
    /\ o.atom.symbols = <<sym>>
    /\ Len(o.atom.positions) = 1

C6_GeometryInvariant ==
    /\ Len(made) = Len(objs)
    /\ \A i \in 1..Len(objs) : Homonuclear(objs[i], made[i].sym, made[i].d)
    /\ last.op = "analyze_N2" => Len(N2) = 1 /\ Homonuclear(N2[1], "N", last.d)
    /\ last.op = "analyze_exp_N2" => Len(N2) = 1 /\ Homonuclear(N2[1], "N", 11)

C6_Witness ==
    /\ last.op = "atomization_energy"
    /\ res.kind = "return"
    /\ made[last.self] = [sym |-> "H", d |-> -5]
    /\ objs[last.self].molecule.calc.results # <<>>

(* C7: a call of analyze_N2 that returns has printed exactly three lines,  *)
(* in this order: the atom energy, the molecule energy and the atomization *)
(* energy, each under its label, with two decimals, followed by " eV".     *)
(* TwoDecimals lists what "%5.2f" gives for the energies of the model.     *)
TwoDecimals(k) ==
    CASE k = -173 -> "-21.62"
      [] k = -85 -> "-10.62"
      [] k = 3 -> " 0.38"
      [] k = 91 -> "11.38"
      [] OTHER -> "?"

C7_ThreeLinesInOrder ==
    last.op = "analyze_N2" /\ res.kind = "return" =>
        LET ea == Observed(Key(N2[1].atom)).val
            em == Observed(Key(N2[1].molecule)).val
        IN  out = << "Nitrogen atom energy: " \o TwoDecimals(ea) \o " eV",
                     "Nitrogen molecule energy: " \o TwoDecimals(em) \o " eV",
                     "Atomization energy: " \o TwoDecimals((2 * ea) - em) \o " eV" >>

C7_Witness ==
    /\ last.op = "analyze_N2"
    /\ res.kind = "return"
    /\ out = << "Nitrogen atom energy: -10.62 eV",
                "Nitrogen molecule energy:  0.38 eV",
                "Atomization energy: -21.62 eV" >>

(* C8: analyze_exp_N2() does what analyze_N2(1.1) does: every call of it   *)
(* leaves the state, the output, the evaluations and the result that a     *)
(* call of analyze_N2 with the distance 11 leaves from the same state.     *)
C8_ExpN2IsAnalyzeN2 ==
    [][last'.op = "analyze_exp_N2" =>
        \E oa \in Outcomes, om \in Outcomes :
            LET w == analyze_N2(World(oa, om), 11)
            IN  /\ objs' = objs
                /\ made' = made
                /\ N2' = <<w.objs[Len(w.objs)]>>
                /\ ncalc' = w.ncalc
                /\ emt' = w.emt
                /\ out' = w.out
                /\ evals' = w.evals
                /\ res' = w.res]_vars

C8_Witness ==
    /\ last.op = "analyze_exp_N2"
    /\ res.kind = "return"
    /\ Len(out) = 3
    /\ N2[1].molecule.positions[2] = <<0, 0, 11>>

(* C9: atom_energy() changes nothing but the calculator of the isolated    *)
(* atom of its instance, which is a new one, and prints nothing;           *)
(* molecule_energy() changes nothing but the calculator of the molecule of *)
(* its instance, which is a new one, and prints nothing.                   *)
C9_AccessorFrame ==
    [][/\ last'.op = "atom_energy" =>
            /\ objs' = [objs EXCEPT ![last'.self].atom.calc =
                                        objs'[last'.self].atom.calc]
            /\ objs'[last'.self].atom.calc.id > ncalc
            /\ out' = <<>>
       /\ last'.op = "molecule_energy" =>
            /\ objs' = [objs EXCEPT ![last'.self].molecule.calc =
                                        objs'[last'.self].molecule.calc]
            /\ objs'[last'.self].molecule.calc.id > ncalc
            /\ out' = <<>>]_vars

C9_Witness ==
    /\ last.op = "molecule_energy"
    /\ objs[last.self].atom.calc.id # 0
    /\ objs[last.self].molecule.calc.id > objs[last.self].atom.calc.id

(* C10: nothing is cached: every evaluation of a call is made with a       *)
(* calculator of its own; atom_energy() and molecule_energy() evaluate     *)
(* their structure once, atomization_energy() evaluates the isolated atom  *)
(* and then, unless that failed, the molecule, and a driver that returns   *)
(* has evaluated atom, molecule, atom, molecule.                           *)
C10_NoCaching ==
    [][/\ last'.op \in Accessors \cup Drivers => ncalc' = ncalc + Len(evals')
       /\ last'.op = "atom_energy" =>
            /\ evals' = <<Key(objs[last'.self].atom)>>
            /\ objs'[last'.self].atom.calc.id = ncalc'
       /\ last'.op = "molecule_energy" =>
            /\ evals' = <<Key(objs[last'.self].molecule)>>
            /\ objs'[last'.self].molecule.calc.id = ncalc'
       /\ last'.op = "atomization_energy" =>
            evals' = IF ObservedIn(emt', Key(objs[last'.self].atom)).kind = "raise"
                     THEN <<Key(objs[last'.self].atom)>>
                     ELSE <<Key(objs[last'.self].atom),
                            Key(objs[last'.self].molecule)>>
       /\ last'.op \in Drivers /\ res'.kind = "return" =>
            evals' = <<Key(N2'[1].atom), Key(N2'[1].molecule),
                       Key(N2'[1].atom), Key(N2'[1].molecule)>>]_vars

C10_Witness ==
    /\ last.op = "atomization_energy"
    /\ Len(evals) = 2
    /\ Len(objs) = 1
    /\ ncalc = 3
    /\ objs[last.self].atom.calc.id = 2

=============================================================================
